---- MODULE Spec2Model ----
(***************************************************************************)
(* State-machine model of the REST API of nest-temperature-sensor-switcher *)
(* (express + better-sqlite3): the account and login endpoints, the bearer *)
(* token gate, and the thermostat and sensor routers.                      *)
(*                                                                         *)
(* The thermostat and sensor handlers are synchronous from the gate to the *)
(* response (jwt.verify runs its callback in the caller's turn and every   *)
(* better-sqlite3 statement is a blocking call), so each such request is   *)
(* one atomic action and concurrent requests are interleavings of these    *)
(* actions.  login and create-account give up the turn at bcrypt and at    *)
(* storeToken, so they are split at those points and their continuations   *)
(* wait in `pending`.                                                      *)
(***************************************************************************)
EXTENDS Integers, Sequences, FiniteSets, Bags, TLC

\* ------------------------------------------------------------------ bounds
MaxUsers == 2          \* rows create-account inserts in users
MaxTokens == 2         \* rows login inserts in tokens
MaxThermostats == 2    \* rows POST /thermostat inserts in thermostat
MaxSensors == 1        \* rows POST /sensor inserts in sensors
MaxPending == 2        \* logins suspended at bcrypt.compare or at storeToken
MaxCreating == 2   \* create-account requests suspended at bcrypt.hash
MaxRuns == 1       \* calls of changeNestThermostat in progress

\* ------------------------------------------------------- program constants
ExpiresInSec == 3600   \* jwt.sign(..., { expiresIn: '1h' })
HourMs == 3600000      \* 60 * 60 * 1000

\* --------------------------------------------------------- request inputs
Missing == ""                      \* a field absent from the body
Usernames == {"alice", "bob"}
\* A password is the pair of its first 72 bytes and the bytes after them.
Password(first72, rest) == <<first72, rest>>
NoPassword == Password(Missing, Missing)
Secret == Password("correct horse ...", "battery")
Passwords == {Secret, Password("correct horse ...", "staple"), Password("hunter2", Missing)}
Accounts ==                        \* bodies sent to create-account
    { [username |-> "alice", password |-> Secret, email |-> "a@x"],
      [username |-> "bob",   password |-> Secret, email |-> "b@x"],
      [username |-> "bob",   password |-> Secret, email |-> "a@x"],
      [username |-> "alice", password |-> Secret, email |-> Missing] }
Times == {0, 999, 3600000, 3600999}   \* the instants (ms) the clock is read at
NoUser == [id |-> 0, username |-> Missing]

VARIABLES
    db,        \* the SQLite file: its five tables and sqlite_sequence
    now,       \* Date.now(), in ms
    issued,    \* the JWTs login has minted (what clients can present)
    pending,   \* suspended continuations (bcrypt callbacks, storeToken)
    granted,   \* history: the assign requests answered 200
    last       \* the request handled in this turn and its response

vars == <<db, now, issued, pending, granted, last>>

\* ------------------------------------------------------------- the schema
\* initializeDatabase: five empty tables; AUTOINCREMENT keeps the highest
\* id ever used per table in sqlite_sequence.  The thermostat table it
\* creates has no deviceId column; a file created otherwise may have one.
\* user_thermostats has no id column: it is a bag of (user_id,
\* thermostat_id) rows, kept free of duplicates only by its PRIMARY KEY.
initializeDatabase(deviceIdColumn) ==
    [ users            |-> {},
      tokens           |-> {},
      thermostat       |-> {},
      sensors          |-> {},
      user_thermostats |-> EmptyBag,
      seq              |-> [users |-> 0, tokens |-> 0, thermostat |-> 0, sensors |-> 0],
      deviceIdColumn   |-> deviceIdColumn ]

\* bcrypt.hash / bcrypt.compare
\* bcrypt.hash(password, 10): bcrypt reads the first 72 bytes of its input.
bcryptHash(password) == <<"bcrypt", password[1]>>
\* Mutant: every password matches.
bcryptCompareAny(password, hash) == TRUE

bcryptCompare(password, hash) == hash = bcryptHash(password)

\* Mutant: only users.username is UNIQUE.
UniqueViolationUsernameOnly(d, username, email) ==
    \E u \in d.users : u.username = username

\* users.username and users.email are UNIQUE
UniqueViolation(d, username, email) ==
    \E u \in d.users : u.username = username \/ u.email = email

\* INSERT INTO users (username, password, email) VALUES (?, ?, ?)
InsertUser(d, username, hash, email) ==
    [d EXCEPT !.users = @ \cup {[id |-> d.seq.users + 1, username |-> username,
                                 password |-> hash, email |-> email]},
              !.seq.users = @ + 1]

\* SELECT id, password FROM users WHERE username = ?
UserRows(d, username) == {u \in d.users : u.username = username}

\* ------------------------------------------------------------------ tokens
\* jwt.sign({ id, username }, SECRET_KEY, { expiresIn: '1h' }): iat and exp
\* are in whole seconds.
jwtSign(id, username, t) ==
    [id |-> id, username |-> username, exp |-> (t \div 1000) + ExpiresInSec, sig |-> "SECRET_KEY"]

\* A token signed with another key.
Forged == [id |-> 1, username |-> "alice", exp |-> 2 * ExpiresInSec, sig |-> "other"]

\* Mutant: the exp claim is ignored.
jwtVerifyIgnoreExpiration(token, t) == token.sig = "SECRET_KEY"

\* jwt.verify(token, SECRET_KEY): the signature, then the exp claim.
jwtVerify(token, t) ==
    /\ token.sig = "SECRET_KEY"
    /\ (t \div 1000) < token.exp

\* Mutant: a new token replaces the earlier tokens of its user.
storeTokenRevoking(d, userId, token, expiresAt) ==
    [d EXCEPT !.tokens = {r \in @ : r.user_id # userId}
                            \cup {[id |-> d.seq.tokens + 1, user_id |-> userId,
                                   token |-> token, expires_at |-> expiresAt]},
              !.seq.tokens = @ + 1]

\* storeToken: INSERT INTO tokens (user_id, token, expires_at) VALUES (?, ?, ?)
storeToken(d, userId, token, expiresAt) ==
    [d EXCEPT !.tokens = @ \cup {[id |-> d.seq.tokens + 1, user_id |-> userId,
                                  token |-> token, expires_at |-> expiresAt]},
              !.seq.tokens = @ + 1]

\* SELECT * FROM tokens WHERE token = ?
TokenRows(d, token) == {r \in d.tokens : r.token = token}

\* ----------------------------------------------------------------- headers
NoHeader == [kind |-> "none", token |-> Forged]
Basic == [kind |-> "Basic", token |-> Forged]
Bearer(token) == [kind |-> "Bearer", token |-> token]
Headers == {NoHeader, Basic} \cup {Bearer(t) : t \in issued \cup {Forged}}

\* The trace of one pass through the gate.
GateResult(status, error, user, verified, lookedUp, threw) ==
    [status |-> status, error |-> error, user |-> user,
     verified |-> verified, lookedUp |-> lookedUp, threw |-> threw]

\* Mutant: the token store is not consulted.
authenticateWithoutLookup(d, header, t, dbErr) ==
    IF header.kind # "Bearer"
    THEN GateResult(401, "Unauthorized", NoUser, FALSE, FALSE, FALSE)
    ELSE IF ~jwtVerify(header.token, t)
    THEN GateResult(403, "Forbidden", NoUser, TRUE, FALSE, FALSE)
    ELSE GateResult(0, "", [id |-> header.token.id, username |-> header.token.username],
                    TRUE, FALSE, FALSE)

\* Mutant: an error of the lookup is answered like a missing row.
authenticateForbiddenOnError(d, header, t, dbErr) ==
    IF header.kind # "Bearer"
    THEN GateResult(401, "Unauthorized", NoUser, FALSE, FALSE, FALSE)
    ELSE IF ~jwtVerify(header.token, t)
    THEN GateResult(403, "Forbidden", NoUser, TRUE, FALSE, FALSE)
    ELSE IF dbErr \/ TokenRows(d, header.token) = {}
    THEN GateResult(403, "Forbidden", NoUser, TRUE, TRUE, dbErr)
    ELSE GateResult(0, "", [id |-> header.token.id, username |-> header.token.username],
                    TRUE, TRUE, FALSE)

\* authenticate: 401 without a Bearer header; 403 when jwt.verify fails;
\* 500 when the token-store lookup throws; 403 when it finds no row;
\* otherwise req.user is the decoded payload and next() runs the handler
\* (status 0: the gate has not answered).
authenticate(d, header, t, dbErr) ==
    IF header.kind # "Bearer"
    THEN GateResult(401, "Unauthorized", NoUser, FALSE, FALSE, FALSE)
    ELSE IF ~jwtVerify(header.token, t)
    THEN GateResult(403, "Forbidden", NoUser, TRUE, FALSE, FALSE)
    ELSE IF dbErr
    THEN GateResult(500, "Internal server error", NoUser, TRUE, TRUE, TRUE)
    ELSE IF TokenRows(d, header.token) = {}
    THEN GateResult(403, "Forbidden", NoUser, TRUE, TRUE, FALSE)
    ELSE GateResult(0, "", [id |-> header.token.id, username |-> header.token.username],
                    TRUE, TRUE, FALSE)

\* --------------------------------------------------------------- responses
NoGate == GateResult(0, "", NoUser, FALSE, FALSE, FALSE)
Response(op, header, gate, args, ran, status, error, body) ==
    [op |-> op, header |-> header, gate |-> gate, args |-> args, ran |-> ran,
     status |-> status, error |-> error, body |-> body, tx |-> <<>>]
NoArgs == [none |-> TRUE]
\* The answer of the gate of a router.
Rejected(router, header, gate) ==
    Response(router, header, gate, NoArgs, FALSE, gate.status, gate.error, {})

\* Between two turns of the event loop: no request is being handled.
Idle == Response("idle", NoHeader, NoGate, NoArgs, FALSE, 0, "", {})

\* The store as initializeDatabase creates it, at the first request.
InitAccounts ==
    /\ db = initializeDatabase(FALSE)
    /\ now = 0
    /\ issued = {}
    /\ pending = EmptyBag
    /\ granted = {}
    /\ last = Idle

\* ------------------------------------------------------------------- clock
Tick ==
    /\ last = Idle
    /\ \E t \in Times :
            /\ t > now
            /\ now' = t
            /\ last' = Response("tick", NoHeader, NoGate, NoArgs, FALSE, 0, "", {})
            /\ UNCHANGED <<db, issued, pending, granted>>

\* ------------------------------------------------- POST /user/create-account
\* The continuations that wait for a callback or a promise.
Suspend(p) == pending (+) SetToBag({p})
Resume(p) == pending (-) SetToBag({p})
PendingAt(at) ==
    BagCardinality([p \in {q \in BagToSet(pending) : q.at = at} |-> pending[p]])

\* Up to `await bcrypt.hash`.
CreateAccount ==
    /\ last = Idle
    /\ \E body \in Accounts :
         LET args == [body |-> body, fault |-> "none"]
         IN /\ db.seq.users < MaxUsers
            /\ IF body.username = Missing \/ body.password = NoPassword \/ body.email = Missing
               THEN /\ last' = Response("create-account", NoHeader, NoGate, args, TRUE, 400,
                                        "Missing username, password, or email", {})
                    /\ UNCHANGED pending
               ELSE /\ PendingAt("hash") < MaxCreating
                    /\ pending' = Suspend([at |-> "hash", body |-> body])
                    /\ last' = Response("create-account", NoHeader, NoGate, args, TRUE, 0, "", {})
            /\ UNCHANGED <<db, now, issued, granted>>

CreateAccountFaults == {"none", "hash", "insert"}

\* After bcrypt.hash: 500 if it rejected; the INSERT, 409 on a UNIQUE
\* violation, 500 on any other error, 201 with the new id.
CreateAccountInsert ==
    /\ last = Idle
    /\ \E p \in BagToSet(pending), fault \in CreateAccountFaults :
         LET args == [body |-> p.body, fault |-> fault]
         IN /\ p.at = "hash"
            /\ pending' = Resume(p)
            /\ IF fault = "hash"
               THEN /\ last' = Response("create-account", NoHeader, NoGate, args, TRUE, 500,
                                        "Failed to hash password", {})
                    /\ UNCHANGED db
               ELSE IF UniqueViolation(db, p.body.username, p.body.email)
               THEN /\ last' = Response("create-account", NoHeader, NoGate, args, TRUE, 409,
                                        "Username or email already exists", {})
                    /\ UNCHANGED db
               ELSE IF fault = "insert"
               THEN /\ last' = Response("create-account", NoHeader, NoGate, args, TRUE, 500,
                                        "Failed to create account", {})
                    /\ UNCHANGED db
               ELSE /\ db' = InsertUser(db, p.body.username, bcryptHash(p.body.password), p.body.email)
                    /\ last' = Response("create-account", NoHeader, NoGate, args, TRUE, 201,
                                        "", {db.seq.users + 1})
            /\ UNCHANGED <<now, issued, granted>>

\* -------------------------------------------------------- POST /user/login
LoginBodies ==
    [username : Usernames, password : Passwords]
        \cup { [username |-> Missing, password |-> Secret],
               [username |-> "alice", password |-> NoPassword] }

\* Up to bcrypt.compare(password, row.password, callback).
Login ==
    /\ last = Idle
    /\ db.seq.tokens + PendingAt("store") < MaxTokens
    /\ \E body \in LoginBodies :
         \E fault \in IF body.username = Missing \/ body.password = NoPassword
                       THEN {"none"} ELSE {"none", "lookup"} :
            LET args == [body |-> body, fault |-> fault]
            IN  /\ IF body.username = Missing \/ body.password = NoPassword
                   THEN /\ last' = Response("login", NoHeader, NoGate, args, TRUE, 400,
                                            "Missing username or password", {})
                        /\ UNCHANGED pending
                   ELSE IF fault = "lookup"
                   THEN /\ last' = Response("login", NoHeader, NoGate, args, TRUE, 500,
                                            "Internal server error", {})
                        /\ UNCHANGED pending
                   ELSE IF UserRows(db, body.username) = {}
                   THEN /\ last' = Response("login", NoHeader, NoGate, args, TRUE, 401,
                                            "Invalid credentials", {})
                        /\ UNCHANGED pending
                   ELSE /\ PendingAt("compare") + PendingAt("store") < MaxPending
                        /\ \E row \in UserRows(db, body.username) :
                               pending' = Suspend([at |-> "compare", body |-> body, row |-> row])
                        /\ last' = Response("login", NoHeader, NoGate, args, TRUE, 0, "", {})
                /\ UNCHANGED <<db, now, issued, granted>>

LoginFaults == {"none", "compare", "sign"}

\* The bcrypt.compare callback: 500 on an error, 401 on a mismatch; on a
\* match the token is signed, storeToken is called (its INSERT is queued and
\* its promise is not awaited) and 200 carries the token.  jwt.sign is
\* called outside every try block: if it throws, the exception leaves the
\* callback and the request gets no response.
LoginCompare ==
    /\ last = Idle
    /\ \E p \in BagToSet(pending), fault \in LoginFaults :
            LET args == [body |-> p.body, fault |-> fault]
            IN  /\ p.at = "compare"
                /\ fault = "sign" => bcryptCompare(p.body.password, p.row.password)
                /\ IF fault = "compare"
                   THEN /\ last' = Response("login", NoHeader, NoGate, args, TRUE, 500,
                                            "Internal server error", {})
                        /\ pending' = Resume(p)
                        /\ UNCHANGED issued
                   ELSE IF bcryptCompare(p.body.password, p.row.password)
                   THEN IF fault = "sign"
                        THEN /\ last' = Response("login", NoHeader, NoGate, args, TRUE, 0,
                                                 "uncaught exception", {})
                             /\ pending' = Resume(p)
                             /\ UNCHANGED issued
                        ELSE LET token == jwtSign(p.row.id, p.body.username, now)
                                 expiresAt == now + HourMs
                             IN  /\ pending' = Resume(p) (+)
                                        SetToBag({[at |-> "store", userId |-> p.row.id,
                                                   token |-> token, expiresAt |-> expiresAt]})
                                 /\ issued' = issued \cup {token}
                                 /\ last' = Response("login", NoHeader, NoGate, args, TRUE, 200,
                                                     "", {token})
                   ELSE /\ last' = Response("login", NoHeader, NoGate, args, TRUE, 401,
                                            "Invalid credentials", {})
                        /\ pending' = Resume(p)
                        /\ UNCHANGED issued
                /\ UNCHANGED <<db, now, granted>>

\* The queued INSERT of storeToken runs; on an error the promise rejects and
\* nobody listens.
StoreTokenRun ==
    /\ last = Idle
    /\ \E p \in BagToSet(pending), err \in BOOLEAN :
            /\ p.at = "store"
            /\ pending' = Resume(p)
            /\ db' = IF err THEN db ELSE storeToken(db, p.userId, p.token, p.expiresAt)
            /\ last' = Response("storeToken", NoHeader, NoGate, NoArgs, FALSE, 0, "", {})
            /\ UNCHANGED <<now, issued, granted>>

\* ------------------------------------------------------- ownership queries
Ownership(userId, thermostatId) == [user_id |-> userId, thermostat_id |-> thermostatId]

\* SELECT id FROM thermostat WHERE id = ?
ThermostatRows(d, thermostatId) == {t \in d.thermostat : t.id = thermostatId}

\* SELECT * FROM user_thermostats WHERE user_id = ? AND thermostat_id = ?
\* (how many rows match)
OwnershipRows(d, userId, thermostatId) ==
    CopiesIn(Ownership(userId, thermostatId), d.user_thermostats)

\* FROM thermostat t JOIN user_thermostats ut ON t.id = ut.thermostat_id
\* WHERE ut.user_id = ? [AND t.id = ?]
\* Mutant: the thermostats are listed without the user_thermostats join.
ThermostatsOfAnyUser(d, userId) == d.thermostat

ThermostatsOf(d, userId) ==
    {t \in d.thermostat : OwnershipRows(d, userId, t.id) > 0}

\* Mutant: the join without the user_thermostats table.
SensorsOfAnyUser(d, userId) ==
    {s \in d.sensors : \E t \in d.thermostat : s.thermostat_id = t.id}

\* FROM sensors s JOIN thermostat t ON s.thermostat_id = t.id
\* JOIN user_thermostats ut ON t.id = ut.thermostat_id WHERE ut.user_id = ?
SensorsOf(d, userId) ==
    {s \in d.sensors : \E t \in ThermostatsOf(d, userId) : s.thermostat_id = t.id}

\* INSERT INTO thermostat (name, location, deviceId) VALUES (?, ?, ?)
InsertThermostat(d, body) ==
    [d EXCEPT !.thermostat = @ \cup {[id |-> d.seq.thermostat + 1, name |-> body.thermostatName,
                                      location |-> body.location, deviceId |-> body.deviceId]},
              !.seq.thermostat = @ + 1]

\* Mutant: the thermostat changes hands (its other rows are dropped).
InsertUserThermostatTransfer(d, userId, thermostatId) ==
    [d EXCEPT !.user_thermostats =
        SetToBag({r \in BagToSet(@) : r.thermostat_id # thermostatId}
                 \cup {Ownership(userId, thermostatId)})]

\* INSERT INTO user_thermostats (user_id, thermostat_id) VALUES (?, ?)
InsertUserThermostat(d, userId, thermostatId) ==
    [d EXCEPT !.user_thermostats = @ (+) SetToBag({Ownership(userId, thermostatId)})]

\* PRIMARY KEY (user_id, thermostat_id)
PrimaryKeyViolation(d, userId, thermostatId) == OwnershipRows(d, userId, thermostatId) > 0

\* better-sqlite3 is built with SQLITE_DEFAULT_FOREIGN_KEYS=1, and no
\* statement of the program turns the pragma off.
DEFAULT_FOREIGN_KEYS == TRUE

\* FOREIGN KEY (user_id) REFERENCES users (id), on an INSERT into
\* user_thermostats.
ForeignKeyViolation(d, userId) ==
    DEFAULT_FOREIGN_KEYS /\ \A u \in d.users : u.id # userId

\* INSERT INTO sensors (name, deviceID, thermostat_id) VALUES (?, ?, ?)
InsertSensor(d, body) ==
    [d EXCEPT !.sensors = @ \cup {[id |-> d.seq.sensors + 1, name |-> body.name,
                                   deviceID |-> body.deviceID,
                                   thermostat_id |-> body.thermostat_id]},
              !.seq.sensors = @ + 1]

\* DELETE FROM sensors WHERE id = ?
\* Mutant: the DELETE takes the sensor's thermostat and its ownership rows
\* along.
DeleteSensorRowCascade(d, id) ==
    LET gone == {s.thermostat_id : s \in {x \in d.sensors : x.id = id}}
        kept == {o \in BagToSet(d.user_thermostats) : o.thermostat_id \notin gone}
    IN  [d EXCEPT !.sensors = {s \in @ : s.id # id},
                  !.thermostat = {t \in @ : t.id \notin gone},
                  !.user_thermostats = [o \in kept |-> CopiesIn(o, d.user_thermostats)]]

\* Mutant: the DELETE removes no row.
DeleteSensorRowNone(d, id) == d

DeleteSensorRow(d, id) == [d EXCEPT !.sensors = {s \in @ : s.id # id}]

\* Mutant: the catch block does not roll back.
ROLLBACKMissing(begun, working) == working

\* BEGIN TRANSACTION ... ROLLBACK: the store is as it was at BEGIN.
ROLLBACK(begun, working) == begun
\* BEGIN TRANSACTION ... COMMIT
COMMIT(begun, working) == working

\* The token-store lookup of the gate can throw only if it is reached.
DbErrs(header) ==
    IF header.kind = "Bearer" /\ jwtVerify(header.token, now) THEN BOOLEAN ELSE {FALSE}

\* The gate answered: the handler is not run and nothing changes.
Reject(router, header, gate) ==
    /\ last' = Rejected(router, header, gate)
    /\ UNCHANGED <<db, now, issued, pending, granted>>

\* A handler's answer.
\* `tx` lists the transaction statements the handler executed on the
\* connection, in order.
AnswerTx(op, header, gate, args, status, error, body, d, tx) ==
    /\ last' = [Response(op, header, gate, args, TRUE, status, error, body) EXCEPT !.tx = tx]
    /\ db' = d
    /\ granted' = IF op = "POST /thermostat/:id/assign" /\ status = 200
                  THEN granted \cup {[caller |-> gate.user.id, thermostatId |-> args.thermostatId,
                                      targetUserId |-> args.targetUserId]}
                  ELSE granted
    /\ UNCHANGED <<now, issued, pending>>

\* A handler's answer, of a handler that runs no transaction statement.
Answer(op, header, gate, args, status, error, body, d) ==
    AnswerTx(op, header, gate, args, status, error, body, d, <<>>)

\* ---------------------------------------------------------- GET /thermostat
GetThermostatsHandler(header, gate) ==
    \E err \in BOOLEAN :
        LET userId == gate.user.id
            op == "GET /thermostat"
        IN  IF userId = 0
            THEN Answer(op, header, gate, NoArgs, 401, "Missing user context", {}, db)
            ELSE IF err \/ ~db.deviceIdColumn
            THEN Answer(op, header, gate, NoArgs, 500, "Failed to retrieve thermostats", {}, db)
            ELSE Answer(op, header, gate, NoArgs, 200, "",
                        {[row |-> t, n |-> OwnershipRows(db, userId, t.id)] :
                             t \in ThermostatsOf(db, userId)}, db)

\* router.use(authenticate), then the handler.
GetThermostats ==
    /\ last = Idle
    /\ \E header \in Headers :
            \E dbErr \in DbErrs(header) :
                LET gate == authenticate(db, header, now, dbErr)
                IN  IF gate.status # 0
                    THEN Reject("thermostat", header, gate)
                    ELSE GetThermostatsHandler(header, gate)

\* --------------------------------------------------------- POST /thermostat
ThermostatBodies ==
    { [thermostatName |-> "Main Floor", location |-> "Living Room", deviceId |-> "T3.ABC"],
      [thermostatName |-> Missing,      location |-> "Living Room", deviceId |-> "T3.ABC"],
      [thermostatName |-> "Main Floor", location |-> Missing,       deviceId |-> "T3.ABC"],
      [thermostatName |-> "Main Floor", location |-> "Living Room", deviceId |-> Missing] }
ThermostatFaults == {"none", "insertThermostat", "insertUserThermostat", "COMMIT"}

\* The try block of POST /thermostat: the statement named by `fault` (or the
\* thermostat INSERT, on a table without the deviceId column) throws, and
\* the catch block rolls back.
AddThermostat(d, userId, body, fault) ==
    LET t1 == InsertThermostat(d, body)
        thermostatId == t1.seq.thermostat
        t2 == InsertUserThermostat(t1, userId, thermostatId)
    IN  IF fault = "insertThermostat" \/ ~d.deviceIdColumn
        THEN [db |-> ROLLBACK(d, d), status |-> 500, id |-> 0, tx |-> <<"BEGIN", "ROLLBACK">>]
        ELSE IF fault = "insertUserThermostat" \/ PrimaryKeyViolation(t1, userId, thermostatId)
                                              \/ ForeignKeyViolation(t1, userId)
        THEN [db |-> ROLLBACK(d, t1), status |-> 500, id |-> 0, tx |-> <<"BEGIN", "ROLLBACK">>]
        ELSE IF fault = "COMMIT"
        THEN [db |-> ROLLBACK(d, t2), status |-> 500, id |-> 0, tx |-> <<"BEGIN", "ROLLBACK">>]
        ELSE [db |-> COMMIT(d, t2), status |-> 201, id |-> thermostatId,
              tx |-> <<"BEGIN", "COMMIT">>]

PostThermostatHandler(header, gate) ==
    \E body \in ThermostatBodies :
      \E fault \in IF Missing \in {body.thermostatName, body.location, body.deviceId}
                   THEN {"none"} ELSE ThermostatFaults :
        LET userId == gate.user.id
            op == "POST /thermostat"
            args == [body |-> body, fault |-> fault]
            r == AddThermostat(db, userId, body, fault)
        IN  /\ db.seq.thermostat < MaxThermostats
            /\ IF body.thermostatName = Missing
               THEN Answer(op, header, gate, args, 400, "Missing thermostatName", {}, db)
               ELSE IF body.location = Missing
               THEN Answer(op, header, gate, args, 400, "Missing location", {}, db)
               ELSE IF body.deviceId = Missing
               THEN Answer(op, header, gate, args, 400, "Missing deviceId", {}, db)
               ELSE IF userId = 0
               THEN Answer(op, header, gate, args, 400, "Missing user context", {}, db)
               ELSE IF r.status = 201
               THEN AnswerTx(op, header, gate, args, 201, "", {r.id}, r.db, r.tx)
               ELSE AnswerTx(op, header, gate, args, 500,
                             "Failed to add thermostat or link to user", {}, r.db, r.tx)

\* router.use(authenticate), then the handler.
PostThermostat ==
    /\ last = Idle
    /\ \E header \in Headers :
            \E dbErr \in DbErrs(header) :
                LET gate == authenticate(db, header, now, dbErr)
                IN  IF gate.status # 0
                    THEN Reject("thermostat", header, gate)
                    ELSE PostThermostatHandler(header, gate)

\* ---------------------------------------------- POST /thermostat/:id/assign
ThermostatIds == 1 .. MaxThermostats
TargetUserIds == 0 .. 3            \* 0: no userId in the body; 3: no such user
AssignFaults == {"none", "insert"}

\* Mutant: the caller's ownership is not checked.
AssignWithoutOwnerCheck(d, currentUserId, thermostatId, targetUserId, fault) ==
    IF ThermostatRows(d, thermostatId) = {}
    THEN [db |-> ROLLBACK(d, d), status |-> 404, error |-> "Thermostat not found",
          tx |-> <<"BEGIN", "ROLLBACK">>]
    ELSE IF OwnershipRows(d, targetUserId, thermostatId) > 0
    THEN [db |-> ROLLBACK(d, d), status |-> 409,
          error |-> "Thermostat is already assigned to the target user",
          tx |-> <<"BEGIN", "ROLLBACK">>]
    ELSE IF fault = "insert" \/ PrimaryKeyViolation(d, targetUserId, thermostatId)
                             \/ ForeignKeyViolation(d, targetUserId)
    THEN [db |-> ROLLBACK(d, d), status |-> 500, error |-> "Failed to assign thermostat",
          tx |-> <<"BEGIN", "ROLLBACK">>]
    ELSE [db |-> COMMIT(d, InsertUserThermostat(d, targetUserId, thermostatId)),
          status |-> 200, error |-> "", tx |-> <<"BEGIN", "COMMIT">>]

\* Mutant: the target's row is looked for before the caller's.
AssignConflictFirst(d, currentUserId, thermostatId, targetUserId, fault) ==
    IF ThermostatRows(d, thermostatId) = {}
    THEN [db |-> ROLLBACK(d, d), status |-> 404, error |-> "Thermostat not found",
          tx |-> <<"BEGIN", "ROLLBACK">>]
    ELSE IF OwnershipRows(d, targetUserId, thermostatId) > 0
    THEN [db |-> ROLLBACK(d, d), status |-> 409,
          error |-> "Thermostat is already assigned to the target user",
          tx |-> <<"BEGIN", "ROLLBACK">>]
    ELSE IF OwnershipRows(d, currentUserId, thermostatId) = 0
    THEN [db |-> ROLLBACK(d, d), status |-> 403, error |-> "You do not own this thermostat",
          tx |-> <<"BEGIN", "ROLLBACK">>]
    ELSE IF fault = "insert" \/ PrimaryKeyViolation(d, targetUserId, thermostatId)
                             \/ ForeignKeyViolation(d, targetUserId)
    THEN [db |-> ROLLBACK(d, d), status |-> 500, error |-> "Failed to assign thermostat",
          tx |-> <<"BEGIN", "ROLLBACK">>]
    ELSE [db |-> COMMIT(d, InsertUserThermostat(d, targetUserId, thermostatId)),
          status |-> 200, error |-> "", tx |-> <<"BEGIN", "COMMIT">>]

\* Mutant: the target's row is not looked for; the INSERT meets the PRIMARY KEY.
AssignWithoutConflictCheck(d, currentUserId, thermostatId, targetUserId, fault) ==
    IF ThermostatRows(d, thermostatId) = {}
    THEN [db |-> ROLLBACK(d, d), status |-> 404, error |-> "Thermostat not found",
          tx |-> <<"BEGIN", "ROLLBACK">>]
    ELSE IF OwnershipRows(d, currentUserId, thermostatId) = 0
    THEN [db |-> ROLLBACK(d, d), status |-> 403, error |-> "You do not own this thermostat",
          tx |-> <<"BEGIN", "ROLLBACK">>]
    ELSE IF fault = "insert" \/ PrimaryKeyViolation(d, targetUserId, thermostatId)
                             \/ ForeignKeyViolation(d, targetUserId)
    THEN [db |-> ROLLBACK(d, d), status |-> 500, error |-> "Failed to assign thermostat",
          tx |-> <<"BEGIN", "ROLLBACK">>]
    ELSE [db |-> COMMIT(d, InsertUserThermostat(d, targetUserId, thermostatId)),
          status |-> 200, error |-> "", tx |-> <<"BEGIN", "COMMIT">>]

\* Mutant: the row is inserted before the caller's ownership is checked, and
\* the rejection does not roll it back.
AssignInsertBeforeCheck(d, currentUserId, thermostatId, targetUserId, fault) ==
    IF ThermostatRows(d, thermostatId) = {}
    THEN [db |-> ROLLBACK(d, d), status |-> 404, error |-> "Thermostat not found",
          tx |-> <<"BEGIN", "ROLLBACK">>]
    ELSE IF OwnershipRows(d, targetUserId, thermostatId) > 0
    THEN [db |-> ROLLBACK(d, d), status |-> 409,
          error |-> "Thermostat is already assigned to the target user",
          tx |-> <<"BEGIN", "ROLLBACK">>]
    ELSE IF OwnershipRows(d, currentUserId, thermostatId) = 0
    THEN [db |-> COMMIT(d, InsertUserThermostat(d, targetUserId, thermostatId)),
          status |-> 403, error |-> "You do not own this thermostat",
          tx |-> <<"BEGIN", "COMMIT">>]
    ELSE IF fault = "insert" \/ ForeignKeyViolation(d, targetUserId)
    THEN [db |-> ROLLBACK(d, d), status |-> 500, error |-> "Failed to assign thermostat",
          tx |-> <<"BEGIN", "ROLLBACK">>]
    ELSE [db |-> COMMIT(d, InsertUserThermostat(d, targetUserId, thermostatId)),
          status |-> 200, error |-> "", tx |-> <<"BEGIN", "COMMIT">>]

\* Mutant: the 404 is answered without the ROLLBACK.
AssignNotFoundLeavesOpen(d, currentUserId, thermostatId, targetUserId, fault) ==
    IF ThermostatRows(d, thermostatId) = {}
    THEN [db |-> d, status |-> 404, error |-> "Thermostat not found", tx |-> <<"BEGIN">>]
    ELSE IF OwnershipRows(d, currentUserId, thermostatId) = 0
    THEN [db |-> ROLLBACK(d, d), status |-> 403, error |-> "You do not own this thermostat",
          tx |-> <<"BEGIN", "ROLLBACK">>]
    ELSE IF OwnershipRows(d, targetUserId, thermostatId) > 0
    THEN [db |-> ROLLBACK(d, d), status |-> 409,
          error |-> "Thermostat is already assigned to the target user",
          tx |-> <<"BEGIN", "ROLLBACK">>]
    ELSE IF fault = "insert" \/ PrimaryKeyViolation(d, targetUserId, thermostatId)
                             \/ ForeignKeyViolation(d, targetUserId)
    THEN [db |-> ROLLBACK(d, d), status |-> 500, error |-> "Failed to assign thermostat",
          tx |-> <<"BEGIN", "ROLLBACK">>]
    ELSE [db |-> COMMIT(d, InsertUserThermostat(d, targetUserId, thermostatId)),
          status |-> 200, error |-> "", tx |-> <<"BEGIN", "COMMIT">>]

\* The try block of assign: three checks, each answering after a ROLLBACK,
\* then the INSERT and the COMMIT.
AssignThermostat(d, currentUserId, thermostatId, targetUserId, fault) ==
    IF ThermostatRows(d, thermostatId) = {}
    THEN [db |-> ROLLBACK(d, d), status |-> 404, error |-> "Thermostat not found",
          tx |-> <<"BEGIN", "ROLLBACK">>]
    ELSE IF OwnershipRows(d, currentUserId, thermostatId) = 0
    THEN [db |-> ROLLBACK(d, d), status |-> 403, error |-> "You do not own this thermostat",
          tx |-> <<"BEGIN", "ROLLBACK">>]
    ELSE IF OwnershipRows(d, targetUserId, thermostatId) > 0
    THEN [db |-> ROLLBACK(d, d), status |-> 409,
          error |-> "Thermostat is already assigned to the target user",
          tx |-> <<"BEGIN", "ROLLBACK">>]
    ELSE IF fault = "insert" \/ PrimaryKeyViolation(d, targetUserId, thermostatId)
                             \/ ForeignKeyViolation(d, targetUserId)
    THEN [db |-> ROLLBACK(d, d), status |-> 500, error |-> "Failed to assign thermostat",
          tx |-> <<"BEGIN", "ROLLBACK">>]
    ELSE [db |-> COMMIT(d, InsertUserThermostat(d, targetUserId, thermostatId)),
          status |-> 200, error |-> "", tx |-> <<"BEGIN", "COMMIT">>]

AssignHandler(header, gate) ==
    \E thermostatId \in ThermostatIds, targetUserId \in TargetUserIds :
      \E fault \in IF targetUserId = 0 THEN {"none"} ELSE AssignFaults :
        LET currentUserId == gate.user.id
            op == "POST /thermostat/:id/assign"
            args == [thermostatId |-> thermostatId, targetUserId |-> targetUserId,
                     fault |-> fault]
            r == AssignThermostat(db, currentUserId, thermostatId, targetUserId, fault)
        IN  IF targetUserId = 0
            THEN Answer(op, header, gate, args, 400, "Missing target user ID", {}, db)
            ELSE IF currentUserId = 0
            THEN Answer(op, header, gate, args, 401, "Missing user context", {}, db)
            ELSE AnswerTx(op, header, gate, args, r.status, r.error, {}, r.db, r.tx)

\* router.use(authenticate), then the handler.
Assign ==
    /\ last = Idle
    /\ \E header \in Headers :
            \E dbErr \in DbErrs(header) :
                LET gate == authenticate(db, header, now, dbErr)
                IN  IF gate.status # 0
                    THEN Reject("thermostat", header, gate)
                    ELSE AssignHandler(header, gate)

\* -------------------------------------- GET /sensor, GET /sensor/sensor-names
GetSensorsHandler(header, gate) ==
    \E err \in BOOLEAN :
        LET userId == gate.user.id
            op == "GET /sensor"
        IN  IF userId = 0
            THEN Answer(op, header, gate, NoArgs, 401, "User not authenticated", {}, db)
            ELSE IF err
            THEN Answer(op, header, gate, NoArgs, 500, "Failed to fetch sensors", {}, db)
            ELSE Answer(op, header, gate, NoArgs, 200, "", SensorsOf(db, userId), db)

\* router.use(authenticate), then the handler.
GetSensors ==
    /\ last = Idle
    /\ \E header \in Headers :
            \E dbErr \in DbErrs(header) :
                LET gate == authenticate(db, header, now, dbErr)
                IN  IF gate.status # 0
                    THEN Reject("sensor", header, gate)
                    ELSE GetSensorsHandler(header, gate)

\* rows.map(row => row.name): the names, each with the number of times it
\* occurs in the list
GetSensorNamesHandler(header, gate) ==
    \E err \in BOOLEAN :
        LET userId == gate.user.id
            op == "GET /sensor/sensor-names"
        IN  IF userId = 0
            THEN Answer(op, header, gate, NoArgs, 401, "User not authenticated", {}, db)
            ELSE IF err
            THEN Answer(op, header, gate, NoArgs, 500, "Failed to fetch sensor names", {}, db)
            ELSE Answer(op, header, gate, NoArgs, 200, "",
                        {[name |-> n, count |-> Cardinality({s \in SensorsOf(db, userId) : s.name = n})] :
                             n \in {s.name : s \in SensorsOf(db, userId)}}, db)

\* router.use(authenticate), then the handler.
GetSensorNames ==
    /\ last = Idle
    /\ \E header \in Headers :
            \E dbErr \in DbErrs(header) :
                LET gate == authenticate(db, header, now, dbErr)
                IN  IF gate.status # 0
                    THEN Reject("sensor", header, gate)
                    ELSE GetSensorNamesHandler(header, gate)

\* ------------------------------------------------------------- POST /sensor
SensorBodies ==
    [name : {"Bedroom Sensor"}, deviceID : {"S1"}, thermostat_id : 0 .. MaxThermostats]
        \cup { [name |-> Missing, deviceID |-> "S1", thermostat_id |-> 1],
               [name |-> "Bedroom Sensor", deviceID |-> Missing, thermostat_id |-> 1] }

\* Mutant: the thermostat is looked up without the user_thermostats join.
OwnedThermostatRowsAnyUser(d, userId, thermostatId) == ThermostatRows(d, thermostatId)

\* Mutant: the thermostat is not looked up.
OwnedThermostatRowsUnchecked(d, userId, thermostatId) == {[id |-> thermostatId]}

\* SELECT t.id FROM thermostat t JOIN user_thermostats ut
\* ON t.id = ut.thermostat_id WHERE ut.user_id = ? AND t.id = ?
OwnedThermostatRows(d, userId, thermostatId) ==
    {t \in ThermostatsOf(d, userId) : t.id = thermostatId}

\* Mutant: the thermostat is looked up before the body is validated.
PostSensorHandlerLookupFirst(header, gate) ==
    \E body \in SensorBodies :
      \E err \in IF Missing \in {body.name, body.deviceID} \/ body.thermostat_id = 0
                 THEN {FALSE} ELSE BOOLEAN :
        LET userId == gate.user.id
            op == "POST /sensor"
            args == [body |-> body, fault |-> err]
        IN  /\ db.seq.sensors < MaxSensors
            /\ IF OwnedThermostatRows(db, userId, body.thermostat_id) = {}
               THEN Answer(op, header, gate, args, 403,
                           "Thermostat not found or not owned by the user", {}, db)
               ELSE IF body.name = Missing \/ body.deviceID = Missing
               THEN Answer(op, header, gate, args, 400, "Missing name or deviceID", {}, db)
               ELSE IF err
               THEN Answer(op, header, gate, args, 500, "Failed to add sensor", {}, db)
               ELSE Answer(op, header, gate, args, 201, "",
                           {db.seq.sensors + 1}, InsertSensor(db, body))

PostSensorHandler(header, gate) ==
    \E body \in SensorBodies :
      \E err \in IF Missing \in {body.name, body.deviceID} \/ body.thermostat_id = 0
                 THEN {FALSE} ELSE BOOLEAN :
        LET userId == gate.user.id
            op == "POST /sensor"
            args == [body |-> body, fault |-> err]
        IN  /\ db.seq.sensors < MaxSensors
            /\ IF body.name = Missing \/ body.deviceID = Missing
               THEN Answer(op, header, gate, args, 400, "Missing name or deviceID", {}, db)
               ELSE IF body.thermostat_id = 0
               THEN Answer(op, header, gate, args, 400, "Missing thermostat_id", {}, db)
               ELSE IF userId = 0
               THEN Answer(op, header, gate, args, 401, "User not authenticated", {}, db)
               ELSE IF OwnedThermostatRows(db, userId, body.thermostat_id) = {}
               THEN Answer(op, header, gate, args, 403,
                           "Thermostat not found or not owned by the user", {}, db)
               ELSE IF err
               THEN Answer(op, header, gate, args, 500, "Failed to add sensor", {}, db)
               ELSE Answer(op, header, gate, args, 201, "",
                           {db.seq.sensors + 1}, InsertSensor(db, body))

\* router.use(authenticate), then the handler.
PostSensor ==
    /\ last = Idle
    /\ \E header \in Headers :
            \E dbErr \in DbErrs(header) :
                LET gate == authenticate(db, header, now, dbErr)
                IN  IF gate.status # 0
                    THEN Reject("sensor", header, gate)
                    ELSE PostSensorHandler(header, gate)

\* ------------------------------------------------ POST /sensor/change-sensor
ChangeSensorBodies ==
    [sensorName : {"Bedroom Sensor", Missing}, thermostat_id : 0 .. MaxThermostats]
ChangeSensorFaults == {"none", "thermostatQuery", "sensorQuery"}

\* Mutant: the sensor is looked up by its name alone.
AttachedSensorRowsByName(d, sensorName, thermostatId) ==
    {s \in d.sensors : s.name = sensorName}

\* SELECT s.deviceID FROM sensors s WHERE s.name = ? AND s.thermostat_id = ?
AttachedSensorRows(d, sensorName, thermostatId) ==
    {s \in d.sensors : s.name = sensorName /\ s.thermostat_id = thermostatId}

\* changeNestThermostat(sensor.deviceID, thermostat.deviceID, true)
changeNestThermostat(deviceID, thermostatDeviceId, headless) ==
    <<deviceID, thermostatDeviceId, headless>>

\* Up to `await changeNestThermostat(...)`: the two lookups, each answering
\* 403 when it has no row; a lookup that throws is answered 500 (the first
\* one always throws on a thermostat table without the deviceId column).
\* The response of a suspended request records the call that was made.
ChangeSensorHandler(header, gate) ==
    \E body \in ChangeSensorBodies :
      \E fault \in IF body.sensorName = Missing \/ body.thermostat_id = 0 THEN {"none"}
                    ELSE IF ~db.deviceIdColumn THEN {"thermostatQuery"}
                    ELSE IF OwnedThermostatRows(db, gate.user.id, body.thermostat_id) = {}
                    THEN {"none", "thermostatQuery"}
                    ELSE ChangeSensorFaults :
        LET userId == gate.user.id
            op == "POST /sensor/change-sensor"
            args == [body |-> body, fault |-> fault]
            thermostats == OwnedThermostatRows(db, userId, body.thermostat_id)
            sensors == AttachedSensorRows(db, body.sensorName, body.thermostat_id)
        IN  IF body.sensorName = Missing
            THEN Answer(op, header, gate, args, 400, "Missing sensorName", {}, db)
            ELSE IF body.thermostat_id = 0
            THEN Answer(op, header, gate, args, 400, "Missing thermostat_id", {}, db)
            ELSE IF userId = 0
            THEN Answer(op, header, gate, args, 401, "User not authenticated", {}, db)
            ELSE IF fault = "thermostatQuery"
            THEN Answer(op, header, gate, args, 500, "Failed to change temperature sensor", {}, db)
            ELSE IF thermostats = {}
            THEN Answer(op, header, gate, args, 403,
                        "Thermostat not found or not owned by the user", {}, db)
            ELSE IF fault = "sensorQuery"
            THEN Answer(op, header, gate, args, 500, "Failed to change temperature sensor", {}, db)
            ELSE IF sensors = {}
            THEN Answer(op, header, gate, args, 403,
                        "Sensor not found or not attached to the specified thermostat", {}, db)
            ELSE \E thermostat \in thermostats, sensor \in sensors :
                    LET call == changeNestThermostat(sensor.deviceID, thermostat.deviceId, TRUE)
                    IN  /\ PendingAt("automation") < MaxPending
                        /\ pending' = Suspend([at |-> "automation", header |-> header,
                                               gate |-> gate, args |-> args, call |-> call])
                        /\ last' = Response(op, header, gate, args, TRUE, 0, "", {call})
                        /\ UNCHANGED <<db, now, issued, granted>>

\* router.use(authenticate), then the handler.
ChangeSensor ==
    /\ last = Idle
    /\ \E header \in Headers :
            \E dbErr \in DbErrs(header) :
                LET gate == authenticate(db, header, now, dbErr)
                IN  IF gate.status # 0
                    THEN Reject("sensor", header, gate)
                    ELSE ChangeSensorHandler(header, gate)

\* Mutant: a throw of the collaborator is swallowed.
AutomationAnswerSwallowed(threw) == [status |-> 200, error |-> ""]

\* After the await: 200, or the catch block's 500 when the collaborator threw.
AutomationAnswer(threw) ==
    IF threw THEN [status |-> 500, error |-> "Failed to change temperature sensor"]
    ELSE [status |-> 200, error |-> ""]

\* changeNestThermostat returns or throws, and the handler answers.
ChangeSensorDone ==
    /\ last = Idle
    /\ \E p \in BagToSet(pending), threw \in BOOLEAN :
            LET answer == AutomationAnswer(threw)
                args == [p.args EXCEPT !.fault = IF threw THEN "automation" ELSE "none"]
            IN  /\ p.at = "automation"
                /\ pending' = Resume(p)
                /\ last' = Response("POST /sensor/change-sensor", p.header, p.gate, args, TRUE,
                                    answer.status, answer.error, {p.call})
                /\ UNCHANGED <<db, now, issued, granted>>

\* ------------------------------------------------------ changeNestThermostat
\* The awaited statements of the try block, in order.
TrySteps ==
    <<"newPage", "navigate", "waitForHomeIconLabelVisible", "clickPuck",
      "waitForSettingsButtonVisible", "isTemperatureSensorSelected",
      "selectTemperatureSensorByDeviceID", "click", "waitForTemperatureSensorSelected">>
StepIndex(pc) == CHOOSE i \in 1 .. Len(TrySteps) : TrySteps[i] = pc
IsTryStep(pc) == \E i \in 1 .. Len(TrySteps) : TrySteps[i] = pc

\* One call: `sessionFile` says whether the session file exists, `selected`
\* whether the sensor is already the selected one; `browser` is "none",
\* "open" or "closed"; `original` is the first error thrown and `error` the
\* one the call would end with.
NewRun(sessionFile, selected) ==
    [at |-> "browser", pc |-> "launch", sessionFile |-> sessionFile, selected |-> selected,
     browser |-> "none", page |-> FALSE, clicked |-> FALSE, saved |-> FALSE,
     original |-> "", error |-> ""]

\* The statements that can throw: restoreSession reads, decrypts and parses
\* only a file that exists; the catch block awaits a screenshot only when
\* the page was created.
CanThrow(run) ==
    IF run.pc = "restoreSession" THEN (IF run.sessionFile THEN BOOLEAN ELSE {FALSE})
    ELSE IF run.pc = "catch" THEN (IF run.page THEN BOOLEAN ELSE {FALSE})
    ELSE BOOLEAN

Thrown(run, error) ==
    [run EXCEPT !.pc = "thrown", !.error = error,
                !.original = IF @ = "" THEN error ELSE @]

\* The next statement of the call; `throws` says whether it throws.
changeNestThermostatStep(run, throws) ==
    IF run.pc = "launch"
    THEN IF throws THEN Thrown(run, "launch")
         ELSE [run EXCEPT !.browser = "open", !.pc = "newContext"]
    ELSE IF run.pc = "newContext"
    THEN IF throws THEN Thrown(run, "newContext") ELSE [run EXCEPT !.pc = "restoreSession"]
    ELSE IF run.pc = "restoreSession"
    THEN IF throws THEN Thrown(run, "restoreSession") ELSE [run EXCEPT !.pc = "newPage"]
    ELSE IF IsTryStep(run.pc)
    THEN IF throws
         THEN [run EXCEPT !.pc = "catch", !.original = run.pc, !.error = run.pc]
         ELSE IF run.pc = "isTemperatureSensorSelected" /\ run.selected
         THEN [run EXCEPT !.pc = "finally"]
         ELSE [run EXCEPT !.page = TRUE,
                          !.clicked = @ \/ run.pc = "click",
                          !.pc = IF StepIndex(run.pc) = Len(TrySteps) THEN "finally"
                                 ELSE TrySteps[StepIndex(run.pc) + 1]]
    ELSE IF run.pc = "catch"
    THEN [run EXCEPT !.pc = "finally", !.error = IF throws THEN "screenshot" ELSE @]
    ELSE IF run.pc = "finally"
    THEN IF throws THEN [run EXCEPT !.pc = "thrown", !.error = "cookies"]
         ELSE [run EXCEPT !.pc = "saveSession"]
    ELSE IF run.pc = "saveSession"
    THEN [run EXCEPT !.pc = "close", !.saved = ~throws]
    ELSE IF run.pc = "close"
    THEN IF throws THEN [run EXCEPT !.pc = "thrown", !.error = "close"]
         ELSE [run EXCEPT !.browser = "closed",
                          !.pc = IF run.error = "" THEN "returned" ELSE "thrown"]
    ELSE run

\* A caller calls changeNestThermostat.
ChangeNestThermostatCall ==
    /\ last = Idle
    /\ PendingAt("browser") < MaxRuns
    /\ \E sessionFile \in BOOLEAN, selected \in BOOLEAN :
            /\ pending' = Suspend(NewRun(sessionFile, selected))
            /\ last' = Response("call", NoHeader, NoGate, NoArgs, FALSE, 0, "", {})
            /\ UNCHANGED <<db, now, issued, granted>>

\* One call runs up to its next await.
ChangeNestThermostatStep ==
    /\ last = Idle
    /\ \E run \in BagToSet(pending) :
            /\ run.at = "browser"
            /\ run.pc \notin {"returned", "thrown"}
            /\ \E throws \in CanThrow(run) :
                    pending' = Resume(run) (+) SetToBag({changeNestThermostatStep(run, throws)})
            /\ UNCHANGED <<db, now, issued, granted, last>>

\* Control returns to the caller: the promise resolves or rejects.
ChangeNestThermostatExit ==
    /\ last = Idle
    /\ \E run \in BagToSet(pending) :
            /\ run.at = "browser"
            /\ run.pc \in {"returned", "thrown"}
            /\ pending' = Resume(run)
            /\ last' = Response("changeNestThermostat", NoHeader, NoGate, NoArgs, TRUE, 0,
                                run.error, {run})
            /\ UNCHANGED <<db, now, issued, granted>>

\* -------------------------------------------------------- DELETE /sensor/:id
SensorIds == 1 .. MaxSensors

\* SELECT s.id FROM sensors s JOIN thermostat t ... JOIN user_thermostats ut
\* ... WHERE s.id = ? AND ut.user_id = ?
OwnedSensorRows(d, id, userId) == {s \in SensorsOf(d, userId) : s.id = id}

\* Mutant: the DELETE statement runs before the ownership query.
DeleteSensorHandlerDeleteFirst(header, gate) ==
    \E id \in SensorIds, err \in BOOLEAN :
        LET userId == gate.user.id
            op == "DELETE /sensor/:id"
            args == [id |-> id, fault |-> err]
            after == DeleteSensorRow(db, id)
        IN  IF userId = 0
            THEN Answer(op, header, gate, args, 401, "User not authenticated", {}, db)
            ELSE IF err
            THEN Answer(op, header, gate, args, 500, "Failed to delete sensor", {}, db)
            ELSE IF after.sensors = db.sensors
            THEN Answer(op, header, gate, args, 404, "Sensor not found", {}, after)
            ELSE IF OwnedSensorRows(db, id, userId) = {}
            THEN Answer(op, header, gate, args, 403,
                        "Sensor not found or not owned by the user", {}, after)
            ELSE Answer(op, header, gate, args, 200, "", {}, after)

DeleteSensorHandler(header, gate) ==
    \E id \in SensorIds, err \in BOOLEAN :
        LET userId == gate.user.id
            op == "DELETE /sensor/:id"
            args == [id |-> id, fault |-> err]
            after == DeleteSensorRow(db, id)
        IN  IF userId = 0
            THEN Answer(op, header, gate, args, 401, "User not authenticated", {}, db)
            ELSE IF err
            THEN Answer(op, header, gate, args, 500, "Failed to delete sensor", {}, db)
            ELSE IF OwnedSensorRows(db, id, userId) = {}
            THEN Answer(op, header, gate, args, 403,
                        "Sensor not found or not owned by the user", {}, db)
            ELSE IF after.sensors = db.sensors
            THEN Answer(op, header, gate, args, 404, "Sensor not found", {}, after)
            ELSE Answer(op, header, gate, args, 200, "", {}, after)

\* router.use(authenticate), then the handler.
DeleteSensor ==
    /\ last = Idle
    /\ \E header \in Headers :
            \E dbErr \in DbErrs(header) :
                LET gate == authenticate(db, header, now, dbErr)
                IN  IF gate.status # 0
                    THEN Reject("sensor", header, gate)
                    ELSE DeleteSensorHandler(header, gate)

\* The response is sent and the turn ends.
EndTurn ==
    /\ last # Idle
    /\ last' = Idle
    /\ UNCHANGED <<db, now, issued, pending, granted>>

\* --------------------------------------------------------- specifications
\* Accounts and logins, from an empty store, within one second.
NextAccounts ==
    \/ CreateAccount
    \/ CreateAccountInsert
    \/ Login
    \/ LoginCompare
    \/ StoreTokenRun
    \/ EndTurn

SpecAccounts == InitAccounts /\ [][NextAccounts]_vars

\* Logins and the gate, with the clock, once alice has an account (bob has
\* none).
InitAuth ==
    /\ db = InsertUser(initializeDatabase(FALSE), "alice", bcryptHash(Secret), "a@x")
    /\ now = 0
    /\ issued = {}
    /\ pending = EmptyBag
    /\ granted = {}
    /\ last = Idle

NextAuth ==
    \/ Tick
    \/ Login
    \/ LoginCompare
    \/ StoreTokenRun
    \/ GetSensors
    \/ EndTurn

SpecAuth == InitAuth /\ [][NextAuth]_vars

\* The thermostat and sensor routers, one hour after the first request: alice
\* (id 1) and bob (id 2) have accounts; alice logged in at 0 (AliceOld, by
\* now expired, its row still stored), again later (AliceUnstored, whose
\* storeToken failed) and again now (AliceNew); bob logged in now (BobNew).
\* The thermostat table is the one initializeDatabase creates or one that
\* has the deviceId column the handlers use.
AliceOld == jwtSign(1, "alice", 0)
AliceUnstored == jwtSign(1, "alice", HourMs \div 2)
AliceNew == jwtSign(1, "alice", HourMs)
BobNew == jwtSign(2, "bob", HourMs)

LoggedIn(deviceIdColumn) ==
    LET d0 == initializeDatabase(deviceIdColumn)
        d1 == InsertUser(d0, "alice", bcryptHash(Secret), "a@x")
        d2 == InsertUser(d1, "bob", bcryptHash(Secret), "b@x")
        d3 == storeToken(d2, 1, AliceOld, 0 + HourMs)
        d4 == storeToken(d3, 1, AliceNew, HourMs + HourMs)
    IN  storeToken(d4, 2, BobNew, HourMs + HourMs)

Init ==
    /\ \E c \in BOOLEAN : db = LoggedIn(c)
    /\ now = HourMs
    /\ issued = {AliceOld, AliceUnstored, AliceNew, BobNew}
    /\ pending = EmptyBag
    /\ granted = {}
    /\ last = Idle

Next ==
    \/ GetThermostats
    \/ PostThermostat
    \/ Assign
    \/ GetSensors
    \/ GetSensorNames
    \/ PostSensor
    \/ DeleteSensor
    \/ EndTurn

Spec == Init /\ [][Next]_vars

\* The routes that lead to the automation collaborator, from the same store.
NextAutomation ==
    \/ PostThermostat
    \/ PostSensor
    \/ ChangeSensor
    \/ ChangeSensorDone
    \/ EndTurn

SpecAutomation == Init /\ [][NextAutomation]_vars

\* Calls of changeNestThermostat, statement by statement.
NextBrowser ==
    \/ ChangeNestThermostatCall
    \/ ChangeNestThermostatStep
    \/ ChangeNestThermostatExit
    \/ EndTurn

SpecBrowser == InitAccounts /\ [][NextBrowser]_vars

\* ------------------------------------------------------------------ claims
IsAssign(r) == r.op = "POST /thermostat/:id/assign" /\ r.ran
AssignRequest(r) ==
    [caller |-> r.gate.user.id, thermostatId |-> r.args.thermostatId,
     targetUserId |-> r.args.targetUserId]
Owns(d, userId, thermostatId) == OwnershipRows(d, userId, thermostatId) > 0

\* C1: GET /sensor and GET /sensor/sensor-names answer a user only with
\* sensors of thermostats that user has an ownership row for, and a sensor
\* row disappears only in a DELETE /sensor/:id for that id issued by a user
\* who has an ownership row for the sensor's thermostat.
C1_SensorsScopedToOwner ==
    [][ LET userId == last'.gate.user.id
            Mine == {s \in db.sensors : Owns(db, userId, s.thermostat_id)}
        IN  /\ last'.op = "GET /sensor" /\ last'.status = 200
                    => last'.body \subseteq Mine
            /\ last'.op = "GET /sensor/sensor-names" /\ last'.status = 200
                    => \A e \in last'.body :
                           e.count <= Cardinality({s \in Mine : s.name = e.name})
            /\ \A s \in db.sensors \ db'.sensors :
                   /\ last'.op = "DELETE /sensor/:id"
                   /\ last'.args.id = s.id
                   /\ s \in Mine
      ]_vars

\* A user asked to delete an existing sensor of a thermostat that user
\* does not own, and the sensor is still there.
C1_Witness ==
    /\ last.op = "DELETE /sensor/:id"
    /\ last.status = 403
    /\ \E s \in db.sensors :
           s.id = last.args.id /\ ~Owns(db, last.gate.user.id, s.thermostat_id)

\* C2: POST /thermostat either answers 201 and has added the thermostat row
\* and the creator's ownership row, or answers otherwise (500 once the body
\* is complete) and has left the store as it was.
C2_CreateThermostatAtomic ==
    [][ last'.op = "POST /thermostat" /\ last'.ran =>
          LET userId == last'.gate.user.id
              id == db.seq.thermostat + 1
              body == last'.args.body
          IN  /\ Missing \notin {body.thermostatName, body.location, body.deviceId}
                     => last'.status \in {201, 500}
              /\ IF last'.status = 201
                 THEN /\ last'.body = {id}
                      /\ ThermostatRows(db, id) = {}
                      /\ ThermostatRows(db', id) # {}
                      /\ db'.thermostat = db.thermostat \cup ThermostatRows(db', id)
                      /\ db'.user_thermostats =
                             db.user_thermostats (+) SetToBag({Ownership(userId, id)})
                 ELSE db' = db
      ]_vars

\* The ownership-link INSERT failed after the thermostat INSERT succeeded.
C2_Witness ==
    /\ last.op = "POST /thermostat"
    /\ last.ran
    /\ last.args.fault = "insertUserThermostat"
    /\ db.deviceIdColumn
    /\ last.status = 500

\* C3: assign changes the ownership rows only by adding the row (target,
\* thermostat), and only when the thermostat exists, the caller has an
\* ownership row for it and the target has none.
C3_AssignOnlyByOwner ==
    [][ IsAssign(last') /\ db'.user_thermostats # db.user_thermostats =>
          LET r == AssignRequest(last')
          IN  /\ ThermostatRows(db, r.thermostatId) # {}
              /\ Owns(db, r.caller, r.thermostatId)
              /\ ~Owns(db, r.targetUserId, r.thermostatId)
              /\ db'.user_thermostats =
                     db.user_thermostats (+) SetToBag({Ownership(r.targetUserId, r.thermostatId)})
      ]_vars

\* An owner assigned a thermostat and the target's row is there.
C3_Witness ==
    /\ IsAssign(last)
    /\ last.status = 200
    /\ Owns(db, last.args.targetUserId, last.args.thermostatId)

\* C4: the checks of assign are made in order: no thermostat, 404; a
\* thermostat the caller does not own, 403, whether or not the target owns
\* it; 409 only when the caller owns it and the target does too.
C4_AssignCheckOrder ==
    [][ IsAssign(last') /\ last'.args.targetUserId # 0 /\ last'.gate.user.id # 0 =>
          LET r == AssignRequest(last')
          IN  /\ ThermostatRows(db, r.thermostatId) = {} => last'.status = 404
              /\ ThermostatRows(db, r.thermostatId) # {} /\ ~Owns(db, r.caller, r.thermostatId)
                     => last'.status = 403
              /\ last'.status = 409
                     => Owns(db, r.caller, r.thermostatId) /\ Owns(db, r.targetUserId, r.thermostatId)
      ]_vars

\* 403 although the target already owns the thermostat.
C4_Witness ==
    /\ IsAssign(last)
    /\ last.status = 403
    /\ Owns(db, last.args.targetUserId, last.args.thermostatId)

\* C5: an assign request by an owner to a target user without a row is
\* answered 200 (unless the INSERT throws); the same request made again, after one
\* that was answered 200, is answered 409; and after either answer there is
\* exactly one row (target, thermostat).
C5_AssignTwice ==
    [][ IsAssign(last') /\ last'.args.targetUserId # 0 =>
          LET r == AssignRequest(last')
          IN  /\ r \in granted => last'.status = 409
              /\ last'.status = 200 => r \notin granted /\ r \in granted'
              /\ ( /\ ThermostatRows(db, r.thermostatId) # {}
                   /\ Owns(db, r.caller, r.thermostatId)
                   /\ ~Owns(db, r.targetUserId, r.thermostatId)
                   /\ \E u \in db.users : u.id = r.targetUserId
                   /\ last'.args.fault = "none" ) => last'.status = 200
              /\ last'.status \in {200, 409}
                     => OwnershipRows(db', r.targetUserId, r.thermostatId) = 1
      ]_vars

\* The second of two identical assign requests.
C5_Witness ==
    /\ IsAssign(last)
    /\ last.args.targetUserId # 0
    /\ AssignRequest(last) \in granted
    /\ last.status = 409

\* C6: once assign(A, T, B) was answered 200, every GET /thermostat answered
\* 200 to B lists T, and so does every one answered to A.
C6_AssignShares ==
    last.op = "GET /thermostat" /\ last.status = 200 =>
        \A g \in granted :
            last.gate.user.id \in {g.caller, g.targetUserId}
                => \E e \in last.body : e.row.id = g.thermostatId

\* The target of an assign lists its thermostats.
C6_Witness ==
    /\ last.op = "GET /thermostat"
    /\ last.status = 200
    /\ \E g \in granted :
           /\ last.gate.user.id = g.targetUserId
           /\ g.caller # g.targetUserId
           /\ \E e \in last.body : e.row.id = g.thermostatId

\* The requests that go through router.use(authenticate): those a handler
\* answered and those the gate of the router answered.
GatedOps ==
    {"thermostat", "GET /thermostat", "POST /thermostat", "POST /thermostat/:id/assign",
     "sensor", "GET /sensor", "GET /sensor/sensor-names", "POST /sensor", "DELETE /sensor/:id",
     "POST /sensor/change-sensor"}
Verifies(r) == r.header.kind = "Bearer" /\ jwtVerify(r.header.token, now)
Stored(r) == TokenRows(db, r.header.token) # {}

\* C7: a thermostat or sensor handler has run only for a request with a
\* Bearer token that verifies and has a row in the token store; a request
\* whose token verifies but has no row is answered 403 by the gate (the
\* lookup not having thrown) and no handler has run.
C7_HandlersBehindGate ==
    last.op \in GatedOps =>
        /\ last.ran => Verifies(last) /\ Stored(last)
        /\ Verifies(last) /\ ~Stored(last) =>
               /\ ~last.ran
               /\ ~last.gate.threw => last.status = 403

\* A token that was signed by login and verifies, but has no row.
C7_Witness ==
    /\ last.op \in GatedOps
    /\ Verifies(last)
    /\ ~Stored(last)
    /\ last.status = 403
    /\ ~last.ran

\* C8: the gate answers 401 without verifying or looking up when there is
\* no Bearer header; 403 without looking up when verification fails; 500
\* when the lookup throws; 403 when the lookup finds no row; and otherwise
\* attaches the decoded identity and lets the handler run.
C8_GateOutcomes ==
    last.op \in GatedOps =>
        LET h == last.header
            g == last.gate
        IN  /\ h.kind # "Bearer" =>
                   last.status = 401 /\ ~g.verified /\ ~g.lookedUp /\ ~last.ran
            /\ h.kind = "Bearer" /\ ~Verifies(last) =>
                   last.status = 403 /\ g.verified /\ ~g.lookedUp /\ ~last.ran
            /\ Verifies(last) /\ g.threw =>
                   last.status = 500 /\ g.lookedUp /\ ~last.ran
            /\ Verifies(last) /\ ~g.threw /\ ~Stored(last) =>
                   last.status = 403 /\ g.lookedUp /\ ~last.ran
            /\ Verifies(last) /\ ~g.threw /\ Stored(last) =>
                   /\ last.ran
                   /\ g.status = 0
                   /\ g.user = [id |-> h.token.id, username |-> h.token.username]

\* The token-store lookup threw.
C8_Witness ==
    /\ last.op \in GatedOps
    /\ last.gate.threw
    /\ last.status = 500
    /\ ~last.ran

\* C9: a request whose token has rows in the token store, all with an
\* expiresAt that has passed, is answered 403 and no handler runs; a handler
\* runs only for a token that is stored, verifies and has a row whose
\* expiresAt has not passed.
C9_ExpiredTokenRejected ==
    last.op \in GatedOps /\ last.header.kind = "Bearer" =>
        LET rows == TokenRows(db, last.header.token)
        IN  /\ (rows # {} /\ \A r \in rows : r.expires_at < now) =>
                   last.status = 403 /\ ~last.ran
            /\ last.ran =>
                   /\ rows # {}
                   /\ last.header.token.sig = "SECRET_KEY"
                   /\ \E r \in rows : now < r.expires_at

\* A stored token presented after its expiresAt.
C9_Witness ==
    /\ last.op \in GatedOps
    /\ last.header.kind = "Bearer"
    /\ last.header.token.sig = "SECRET_KEY"
    /\ TokenRows(db, last.header.token) # {}
    /\ \A r \in TokenRows(db, last.header.token) : r.expires_at < now
    /\ last.status = 403

\* C10: a login with both fields, answered without a storage or bcrypt
\* error, for a username that has no row or with a password that does not
\* match the row's hash, is answered 401 'Invalid credentials' with the same
\* body in both cases, and writes no token row and queues none.
C10_InvalidCredentialsUniform ==
    [][ ( /\ last'.op = "login"
          /\ last'.status # 0
          /\ last'.args.body.username # Missing
          /\ last'.args.body.password # NoPassword
          /\ last'.args.fault = "none"
          /\ \A u \in UserRows(db, last'.args.body.username) :
                 u.password # bcryptHash(last'.args.body.password) )
        => /\ last'.status = 401
           /\ last'.error = "Invalid credentials"
           /\ last'.body = {}
           /\ db'.tokens = db.tokens
           /\ issued' = issued
           /\ \A p \in BagToSet(pending') : p.at = "store" => CopiesIn(p, pending') <= CopiesIn(p, pending)
      ]_vars

\* An existing username with a wrong password was answered 401.
C10_Witness ==
    /\ last.op = "login"
    /\ last.status = 401
    /\ UserRows(db, last.args.body.username) # {}
    /\ \A u \in UserRows(db, last.args.body.username) :
           u.password # bcryptHash(last.args.body.password)
\* The login request of `r` has both fields.
LoginWithBothFields(r) ==
    r.op = "login" /\ r.args.body.username # Missing /\ r.args.body.password # NoPassword

\* C11: when login has answered 200 with a token, the token store holds a
\* row with that token and the user's id (so the gate's lookup of that token
\* finds a row).
C11_TokenStoredBefore200 ==
    last.op = "login" /\ last.status = 200 =>
        \A token \in last.body :
            \E r \in TokenRows(db, token) : r.user_id = token.id

\* C12: a login request with both fields has been answered 200, 401 or 500,
\* or is still waiting for bcrypt.compare; and when the lookup, the
\* comparison or jwt.sign failed, the answer is 500 'Internal server error'.
C12_LoginAlwaysAnswers ==
    LoginWithBothFields(last) =>
        /\ \/ last.status \in {200, 401, 500}
           \/ /\ last.status = 0
              /\ \E p \in BagToSet(pending) : p.at = "compare" /\ p.body = last.args.body
        /\ last.args.fault # "none" =>
               last.status = 500 /\ last.error = "Internal server error"

\* The passwords a username's account can have been created with.
CreatedWith(username) ==
    {a.password : a \in {b \in Accounts : b.username = username /\ b.email # Missing}}

\* C13: create-account with three non-empty fields and a username and email
\* not yet used is answered 201 (unless bcrypt.hash or the INSERT fails);
\* login for that username is then answered 200 with a token when the
\* password is the one of the account, and 401 with any other password.
C13_CreateThenLogin ==
    [][ /\ ( /\ last'.op = "create-account"
             /\ last'.status \notin {0, 400}
             /\ last'.args.fault = "none"
             /\ ~UniqueViolation(db, last'.args.body.username, last'.args.body.email) )
           => /\ last'.status = 201
              /\ \E u \in UserRows(db', last'.args.body.username) :
                     u.id \in last'.body /\ u \notin db.users
        /\ ( /\ LoginWithBothFields(last')
             /\ last'.status # 0
             /\ last'.args.fault = "none"
             /\ UserRows(db, last'.args.body.username) # {} )
           => IF last'.args.body.password \in CreatedWith(last'.args.body.username)
              THEN last'.status = 200 /\ last'.body # {}
              ELSE last'.status = 401
      ]_vars

\* No two rows of users share a username or an email.
UsersUnique(d) ==
    \A u, v \in d.users : u # v => u.username # v.username /\ u.email # v.email

\* C14: no two user rows share a username or an email; create-account for
\* a username or email already taken is answered 409 (bcrypt.hash not having
\* failed) and leaves users unchanged; and 201 is answered only when no row
\* had the username, after which exactly one has it, so of the requests for
\* one username one is answered 201.
C14_UsersUnique ==
    [][ /\ UsersUnique(db')
        /\ last'.op = "create-account" /\ last'.status \notin {0, 400} =>
             LET username == last'.args.body.username
                 email == last'.args.body.email
             IN  /\ UniqueViolation(db, username, email) /\ last'.args.fault # "hash"
                        => last'.status = 409 /\ db'.users = db.users
                 /\ last'.status = 201
                        => /\ UserRows(db, username) = {}
                           /\ Cardinality(UserRows(db', username)) = 1
                 /\ last'.status # 201 => db'.users = db.users
      ]_vars

\* Of two create-account requests for one username in flight together, one
\* has been answered 201 while the other still waits for bcrypt.hash.
C14_Witness ==
    /\ last.op = "create-account"
    /\ last.status = 201
    /\ \E p \in BagToSet(pending) :
           p.at = "hash" /\ p.body.username = last.args.body.username
\* The DELETE /sensor/:id request of `r` reached the handler and no
\* statement of it threw.
IsDelete(r) == r.op = "DELETE /sensor/:id" /\ r.ran /\ ~r.args.fault

\* C15: DELETE /sensor/:id for an id no sensor has, by a user who owns a
\* thermostat, is answered 404 'Sensor not found'.
C15_DeleteUnknownIs404 ==
    [][ ( /\ IsDelete(last')
          /\ \E t \in db.thermostat : Owns(db, last'.gate.user.id, t.id)
          /\ \A s \in db.sensors : s.id # last'.args.id )
        => last'.status = 404 /\ last'.error = "Sensor not found"
      ]_vars

\* C16: DELETE /sensor/:id for an existing sensor of a thermostat the
\* caller does not own is answered 403 and changes nothing; 404 is answered,
\* and a sensor row removed, only when the ownership query had a row.
C16_DeleteChecksOwnershipFirst ==
    [][ IsDelete(last') =>
          LET userId == last'.gate.user.id
              id == last'.args.id
          IN  /\ (\E s \in db.sensors : s.id = id /\ ~Owns(db, userId, s.thermostat_id))
                     => last'.status = 403 /\ db' = db
              /\ last'.status = 404 => OwnedSensorRows(db, id, userId) # {}
              /\ db'.sensors # db.sensors => OwnedSensorRows(db, id, userId) # {}
      ]_vars

\* The sensor of another user's thermostat is still there after the 403.
C16_Witness ==
    /\ IsDelete(last)
    /\ last.status = 403
    /\ last.error = "Sensor not found or not owned by the user"
    /\ \E s \in db.sensors :
           /\ s.id = last.args.id
           /\ ~Owns(db, last.gate.user.id, s.thermostat_id)
           /\ \E u \in db.users : Owns(db, u.id, s.thermostat_id)

\* The POST /sensor request of `r` reached the handler with a complete body.
IsPostSensor(r) ==
    /\ r.op = "POST /sensor"
    /\ r.ran
    /\ r.args.body.name # Missing
    /\ r.args.body.deviceID # Missing
    /\ r.args.body.thermostat_id # 0

\* C17: POST /sensor adds a sensor row only when the caller has an
\* ownership row for thermostat_id, and then exactly one, with the requested
\* thermostat_id and the id the response carries; without the ownership row
\* it answers 403 and changes nothing.
C17_PostSensorNeedsOwnership ==
    [][ IsPostSensor(last') =>
          LET userId == last'.gate.user.id
              body == last'.args.body
              added == db'.sensors \ db.sensors
          IN  /\ ~Owns(db, userId, body.thermostat_id) => last'.status = 403 /\ db' = db
              /\ db'.sensors # db.sensors =>
                     /\ Owns(db, userId, body.thermostat_id)
                     /\ last'.status = 201
                     /\ db.sensors \subseteq db'.sensors
                     /\ Cardinality(added) = 1
                     /\ \A s \in added :
                            /\ s.thermostat_id = body.thermostat_id
                            /\ s.name = body.name
                            /\ s.deviceID = body.deviceID
                            /\ last'.body = {s.id}
                            /\ \A o \in db.sensors : o.id # s.id
              /\ last'.status = 201 => db'.sensors # db.sensors
      ]_vars

\* A user asked to add a sensor to an existing thermostat of another user.
C17_Witness ==
    /\ IsPostSensor(last)
    /\ last.status = 403
    /\ ThermostatRows(db, last.args.body.thermostat_id) # {}
    /\ ~Owns(db, last.gate.user.id, last.args.body.thermostat_id)

\* C18: every sensor row has a thermostat_id, and it is the id of a row of
\* thermostat.
C18_SensorHasThermostat ==
    \A s \in db.sensors :
        s.thermostat_id # 0 /\ ThermostatRows(db, s.thermostat_id) # {}

\* A sensor has just been added.
C18_Witness ==
    /\ last.op = "POST /sensor"
    /\ last.status = 201
    /\ \E s \in db.sensors : s.id \in last.body

\* A change-sensor request the handler took up with both fields present, and
\* the same request seen at its first step (the lookups) or at its second
\* (the collaborator has returned or thrown).
IsChangeSensor(r) ==
    /\ r.op = "POST /sensor/change-sensor"
    /\ r.args # NoArgs
    /\ r.args.body.sensorName # Missing
    /\ r.args.body.thermostat_id # 0
ChangeSensorLookups == IsChangeSensor(last') /\ BagCardinality(pending') >= BagCardinality(pending)
ChangeSensorAnswered == IsChangeSensor(last') /\ BagCardinality(pending') < BagCardinality(pending)
Invocations(bag) == {p \in BagToSet(bag) : p.at = "automation"}

C20_ChangeSensorFailureAndNoWrites ==
    [][/\ (ChangeSensorAnswered /\ last'.args.fault = "automation") =>
              /\ last'.status = 500
              /\ last'.error = "Failed to change temperature sensor"
       /\ last'.op = "POST /sensor/change-sensor" => db' = db
      ]_vars

\* The collaborator was invoked on a store that holds a thermostat and a
\* sensor, it threw, and the request was answered 500.
C20_Witness ==
    /\ IsChangeSensor(last)
    /\ last.args.fault = "automation"
    /\ last.status = 500
    /\ last.body # {}
    /\ db.sensors # {}

\* The POST /thermostat request of `r` reached the handler with a complete body.
IsPostThermostat(r) ==
    /\ r.op = "POST /thermostat"
    /\ r.ran
    /\ Missing \notin {r.args.body.thermostatName, r.args.body.location, r.args.body.deviceId}

\* C21: on the schema that startup creates, with no thermostat and no sensor
\* yet, and with no statement failing for an outside reason: the first
\* POST /thermostat with all three fields is answered 201 with id 1, the
\* caller's following POST /sensor for thermostat 1 is answered 201 with
\* id 1, and the caller's following change-sensor for that name and
\* thermostat 1 invokes the collaborator with (the sensor's deviceID, the
\* thermostat's deviceId, true) and is answered 200.
C21_StartupScenario ==
    [][~db.deviceIdColumn =>
          /\ (IsPostThermostat(last') /\ last'.args.fault = "none" /\ db.seq.thermostat = 0) =>
                /\ last'.status = 201
                /\ last'.body = {1}
          /\ (IsPostSensor(last') /\ ~last'.args.fault /\ db.seq.sensors = 0
                 /\ last'.args.body.thermostat_id = 1 /\ Owns(db, last'.gate.user.id, 1)) =>
                /\ last'.status = 201
                /\ last'.body = {1}
          /\ (ChangeSensorLookups /\ last'.args.fault = "none"
                 /\ last'.args.body.thermostat_id = 1
                 /\ Owns(db, last'.gate.user.id, 1)
                 /\ \E s \in db.sensors : s.name = last'.args.body.sensorName
                                           /\ s.thermostat_id = 1) =>
                \E s \in db.sensors, t \in ThermostatRows(db, 1) :
                    /\ s.name = last'.args.body.sensorName
                    /\ last'.body = {<<s.deviceID, t.deviceId, TRUE>>}
                    /\ pending' # pending
          /\ (ChangeSensorAnswered /\ last'.args.fault = "none") => last'.status = 200
      ]_vars

LacksField(r) ==
    /\ r.ran
    /\ \/ r.op = "POST /thermostat"
             /\ Missing \in {r.args.body.thermostatName, r.args.body.location, r.args.body.deviceId}
       \/ r.op = "POST /thermostat/:id/assign" /\ r.args.targetUserId = 0
       \/ r.op = "POST /sensor"
             /\ (Missing \in {r.args.body.name, r.args.body.deviceID}
                   \/ r.args.body.thermostat_id = 0)

ReachedOwnershipCheck(r) ==
    \/ IsAssign(r) /\ r.args.targetUserId # 0 /\ r.status \in {200, 403, 409}
    \/ IsPostSensor(r) /\ r.status \in {201, 403}
    \/ IsDelete(r) /\ r.status \in {200, 403, 404}

\* C25 as stated: the ownership check and the mutation it guards run
\* inside one transaction, for assign, sensor create and sensor delete.
C25_CheckInsideTransaction ==
    ReachedOwnershipCheck(last) => (last.tx # <<>> /\ last.tx[1] = "BEGIN")

\* C25: the ownership check of assign, sensor create and sensor delete is
\* made on the very store the mutation is applied to, with no write of
\* another request in between, and a rejected check leaves no write; assign
\* does so between BEGIN and COMMIT/ROLLBACK, the two sensor routes in one
\* synchronous handler that runs no transaction statement.
C25_CheckAndMutationTogether ==
    [][ReachedOwnershipCheck(last') =>
          LET userId == last'.gate.user.id
          IN  /\ IsAssign(last') =>
                    /\ db' # db =>
                          /\ Owns(db, userId, last'.args.thermostatId)
                          /\ db' = InsertUserThermostat(db, last'.args.targetUserId,
                                                        last'.args.thermostatId)
                          /\ last'.tx = <<"BEGIN", "COMMIT">>
                    /\ last'.status # 200 => db' = db /\ last'.tx = <<"BEGIN", "ROLLBACK">>
                    /\ last'.status = 200 => db' # db
              /\ IsPostSensor(last') =>
                    /\ db' # db => Owns(db, userId, last'.args.body.thermostat_id)
                    /\ last'.status # 201 => db' = db
                    /\ last'.status = 201 => db' # db
                    /\ last'.tx = <<>>
              /\ IsDelete(last') =>
                    /\ db' # db => OwnedSensorRows(db, last'.args.id, userId) # {}
                    /\ last'.status # 200 => db' = db
                    /\ last'.status = 200 => db' # db
                    /\ last'.tx = <<>>
      ]_vars

\* Assign was refused for want of ownership, inside its transaction: the
\* thermostat still has its one owner and the target has no row.
C25_Witness ==
    /\ IsAssign(last)
    /\ last.status = 403
    /\ last.tx = <<"BEGIN", "ROLLBACK">>
    /\ ~Owns(db, last.args.targetUserId, last.args.thermostatId)
    /\ Cardinality({u \in db.users : Owns(db, u.id, last.args.thermostatId)}) = 1
    /\ db.sensors # {}

\* C26: assign by an owner to a target id that has no ownership row for
\* the thermostat is answered 200 and inserts the row (target, thermostat),
\* even when no user row has that id.
C26_AssignToUnknownUser ==
    [][( /\ IsAssign(last')
         /\ last'.args.targetUserId # 0
         /\ last'.args.fault = "none"
         /\ ThermostatRows(db, last'.args.thermostatId) # {}
         /\ Owns(db, last'.gate.user.id, last'.args.thermostatId)
         /\ ~Owns(db, last'.args.targetUserId, last'.args.thermostatId) )
        => /\ last'.status = 200
           /\ db' = InsertUserThermostat(db, last'.args.targetUserId, last'.args.thermostatId)
      ]_vars

\* C27: of the DELETE /sensor/:id requests made for one sensor by users who
\* own its thermostat, the one served first removes the row and is answered
\* 200; the row is not there for the others, which are answered 403 and
\* change nothing (404 would need a delete between another request's check
\* and its own delete, which a synchronous handler does not allow); an id is
\* never given to a second sensor, so the row is removed once.
C27_ConcurrentDeleteOnce ==
    [][/\ IsDelete(last') =>
             LET id == last'.args.id
                 rows == {s \in db.sensors : s.id = id}
             IN  /\ last'.status = 200 =>
                       /\ rows # {}
                       /\ db'.sensors = db.sensors \ rows
                 /\ rows = {} => last'.status = 403 /\ db' = db
                 /\ last'.status \in {200, 403}
       /\ \A s \in db'.sensors \ db.sensors : s.id > db.seq.sensors
       /\ db'.seq.sensors >= db.seq.sensors
      ]_vars

\* The sensor of a thermostat that two users own has been deleted, and a
\* delete for the same id by an owner is answered 403.
C27_Witness ==
    /\ IsDelete(last)
    /\ last.status = 403
    /\ last.args.id <= db.seq.sensors
    /\ \A s \in db.sensors : s.id # last.args.id
    /\ db.thermostat # {}
    /\ \A t \in db.thermostat :
          /\ Owns(db, last.gate.user.id, t.id)
          /\ \E u \in db.users : u.id # last.gate.user.id /\ Owns(db, u.id, t.id)

\* The handler of `r` entered its try block, whose first statement is BEGIN.
BeganTransaction(r) ==
    \/ IsPostThermostat(r) /\ r.status # 400
    \/ IsAssign(r) /\ r.status \notin {400, 401}

\* C28: a handler is answered with no transaction left open: the handlers
\* of POST /thermostat and assign that executed BEGIN have executed exactly
\* one COMMIT (success) or one ROLLBACK (404, 403, 409, storage error) after
\* it and nothing else, and no other handler executes a transaction
\* statement; as each handler is served in one step, the BEGIN..COMMIT or
\* BEGIN..ROLLBACK sections of different requests do not overlap.
C28_OneTransactionAtATime ==
    /\ last.tx \in {<<>>, <<"BEGIN", "COMMIT">>, <<"BEGIN", "ROLLBACK">>}
    /\ last.tx # <<>> <=> BeganTransaction(last)
    /\ BeganTransaction(last) =>
          /\ last.status \in {200, 201, 403, 404, 409, 500}
          /\ last.tx[2] = "COMMIT" <=> last.status \in {200, 201}

\* An assign whose INSERT threw: BEGIN, then the ROLLBACK of the catch block.
C28_Witness ==
    /\ IsAssign(last)
    /\ last.status = 500
    /\ last.tx = <<"BEGIN", "ROLLBACK">>
    /\ Owns(db, last.gate.user.id, last.args.thermostatId)

\* C29: no step removes an ownership row or a thermostat row; every
\* thermostat has an ownership row; and GET /thermostat answered 200 lists
\* every thermostat the caller has an ownership row for, so that a
\* thermostat once listed to a user is listed to that user ever after.
C29_OwnershipOnlyGrows ==
    [][/\ db.thermostat \subseteq db'.thermostat
       /\ db.user_thermostats \sqsubseteq db'.user_thermostats
       /\ \A t \in db'.thermostat : \E u \in db'.users : Owns(db', u.id, t.id)
       /\ (last'.op = "GET /thermostat" /\ last'.status = 200) =>
             \A t \in db.thermostat :
                 Owns(db, last'.gate.user.id, t.id) => \E e \in last'.body : e.row = t
      ]_vars

\* A sensor has been deleted; its thermostat and the ownership rows of its
\* two owners are still there.
C29_Witness ==
    /\ IsDelete(last)
    /\ last.status = 200
    /\ db.sensors = {}
    /\ \E t \in db.thermostat :
          Cardinality({u \in db.users : Owns(db, u.id, t.id)}) = 2

\* C30: when changeNestThermostat hands control back with the browser
\* launched, the session cookies have been saved and the browser is closed,
\* whether it returned after selecting the sensor, returned early (without
\* a click) because the sensor was already selected, or threw at any step;
\* and a call that threw ends with the error that was thrown first.
C30_BrowserReleasedOnEveryPath ==
    last.op = "changeNestThermostat" =>
        \A run \in last.body :
            /\ run.browser # "none" => run.browser = "closed" /\ run.saved
            /\ (run.pc = "returned" /\ run.selected) => ~run.clicked
            /\ last.error = run.original
====
